---- MODULE Spec2Model ----
(***************************************************************************)
(* Model of blarify's graph persistence / retrieval manager                *)
(* (blarify/db_managers/neo4j_manager.py) and of the agent tool wrapper    *)
(* (blarify/agent/tools/GraphQueryTool.py).                                *)
(*                                                                         *)
(* Python values are tagged records, so that values of different Python    *)
(* types can be compared: None, str (a sequence of one-character strings), *)
(* tuple, list (a bag: the store fixes no order), NodeResult.              *)
(***************************************************************************)
EXTENDS Bags, FiniteSets, Integers, Sequences, TLC

VARIABLES
    nodes,      \* the store's nodes: records [labels, props]
    rels,       \* the store's relationships: records [src, type, props, dst]
    indexes,    \* names of the indexes provisioned in the store
    conn,       \* per manager: position inside __init__ / lifecycle
    last,       \* the last call made on a manager or tool, and what it returned
    query,      \* _format_query: its argument
    formatted   \* _format_query: its return value (None before the call)

vars == <<nodes, rels, indexes, conn, last, query, formatted>>

------------------------------------------------------------------------------
(* Bounds of the model *)

MaxNodes == 2
MaxRels == 4
MaxLen == 3

------------------------------------------------------------------------------
(* Python values *)

None == [t |-> "None"]
S(chars) == [t |-> "str", s |-> chars]
PyInt(v) == [t |-> "int", v |-> v]
Tuple(items) == [t |-> "tuple", items |-> items]
List(bag) == [t |-> "list", bag |-> bag]

\* Python truth value testing, as used by `if not x`
Truthy(v) ==
    CASE v.t = "None" -> FALSE
      [] v.t = "str" -> Len(v.s) > 0
      [] v.t = "int" -> v.v # 0
      [] v.t = "tuple" -> Len(v.items) > 0
      [] v.t = "list" -> DOMAIN v.bag # {}
      [] OTHER -> TRUE

\* dict.get(key): None when the key is absent
Get(props, k) == IF k \in DOMAIN props THEN props[k] ELSE None

------------------------------------------------------------------------------
(* Query Escaper *)

special_characters ==
    << <<"+">>, <<"-">>, <<"&", "&">>, <<"|", "|">>, <<"!">>, <<"(">>, <<")">>,
       <<"{">>, <<"}">>, <<"[">>, <<"]">>, <<"^">>, <<"\"">>, <<"~">>, <<"*">>,
       <<"?">>, <<":">>, <<"\\">>, <<"/">> >>

\* str.replace(old, new): every non-overlapping occurrence, left to right
RECURSIVE Replace(_, _, _)
Replace(s, old, new) ==
    IF Len(s) < Len(old) THEN s
    ELSE IF SubSeq(s, 1, Len(old)) = old
         THEN new \o Replace(SubSeq(s, Len(old) + 1, Len(s)), old, new)
         ELSE <<s[1]>> \o Replace(Tail(s), old, new)

\* the loop `for character in special_characters`, from its i-th iteration on
RECURSIVE FormatFrom(_, _)
FormatFrom(q, i) ==
    IF i > Len(special_characters) THEN q
    ELSE FormatFrom(Replace(q, special_characters[i], <<"\\">> \o special_characters[i]), i + 1)

_format_query(q) == FormatFrom(q, 1)

------------------------------------------------------------------------------
(* Managers: each is constructed for one (repo_id, entity_id) partition *)

Managers == {"m1", "m2"}

repo_id(m) == IF m = "m1" THEN S(<<"r", "1">>) ELSE S(<<"r", "2">>)
entity_id(m) == IF m = "m1" THEN S(<<"e", "1">>) ELSE S(<<"e", "2">>)

------------------------------------------------------------------------------
(* Inputs of the calls: node dicts, edge dicts, ids, paths, search texts *)

IdN1 == S(<<"n", "1">>)
IdN2 == S(<<"n", "2">>)
PathAB == S(<<"a", "/", "b">>)
PathC == S(<<"c">>)

NFoo ==
    [type |-> "FUNCTION", extra_labels |-> {},
     attributes |-> [node_id |-> IdN1, name |-> S(<<"f", "o", "o">>), path |-> PathAB,
                     node_path |-> PathAB, start_line |-> PyInt(1), end_line |-> PyInt(2),
                     text |-> S(<<"x">>)]]
\* NFoo again after an edit of the file: same node_id, changed path and text
NFooEdited ==
    [type |-> "FUNCTION", extra_labels |-> {},
     attributes |-> [node_id |-> IdN1, name |-> S(<<"f", "o", "o">>), path |-> PathC,
                     node_path |-> PathC, start_line |-> PyInt(1), end_line |-> PyInt(3),
                     text |-> S(<<"y">>)]]
NBar ==
    [type |-> "CLASS", extra_labels |-> {"PUBLIC"},
     attributes |-> [node_id |-> IdN2, name |-> S(<<"b", "a", "r">>), path |-> PathAB]]
NodeInputs == {NFoo, NFooEdited, NBar}

Edge(src, dst, type) ==
    [sourceId |-> src, targetId |-> dst, type |-> type, scopeText |-> S(<<"s">>)]

\* foo calls itself and bar, and uses bar; bar calls foo
EdgeInputs ==
    {Edge(IdN1, IdN1, "CALLS"), Edge(IdN1, IdN2, "CALLS"), Edge(IdN1, IdN2, "USES"),
     Edge(IdN2, IdN1, "CALLS")}

\* the (nodes, edges) argument pairs of save_graph: one node, one edge, or a
\* batch whose edge joins the nodes the same call ingests
SaveInputs ==
    {<<(<<n>>), <<>>>> : n \in NodeInputs}
        \cup {<<(<<>>), <<e>>>> : e \in EdgeInputs}
        \cup {<<(<<NFoo, NBar>>), <<Edge(IdN1, IdN2, "CALLS")>>>>}

IdInputs == {IdN1, IdN2}
PathInputs == {PathAB, PathC}
TextInputs == {S(<<"f", "o">>), PathAB}

------------------------------------------------------------------------------
(* Bulk Writer *)

\* apoc.map.merge(first, second): second wins on a shared key
apoc_map_merge(first, second) ==
    [k \in DOMAIN first \cup DOMAIN second |->
        IF k \in DOMAIN second THEN second[k] ELSE first[k]]

\* MERGE's match: the node carries every label and every identifying property
MergeMatches(n, labels, identProps) ==
    /\ labels \subseteq n.labels
    /\ \A k \in DOMAIN identProps : k \in DOMAIN n.props /\ n.props[k] = identProps[k]

\* apoc.merge.node(labels, identProps, {}, {}): create unless some node matches;
\* nothing is set on a match
apoc_merge_node(ns, labels, identProps) ==
    IF \E n \in ns : MergeMatches(n, labels, identProps)
    THEN ns
    ELSE ns \cup {[labels |-> labels, props |-> identProps]}

RECURSIVE _create_nodes_txn(_, _, _, _)
_create_nodes_txn(ns, nodeList, repoId, entityId) ==
    IF nodeList = <<>> THEN ns
    ELSE LET node == Head(nodeList)
         IN _create_nodes_txn(
                apoc_merge_node(ns, node.extra_labels \cup {node.type, "NODE"},
                    apoc_map_merge(node.attributes,
                                   [repoId |-> repoId, entityId |-> entityId])),
                Tail(nodeList), repoId, entityId)

\* MATCH (node:NODE {node_id: id})
MatchNODE(ns, id) == {n \in ns : "NODE" \in n.labels /\ Get(n.props, "node_id") = id}

\* apoc.merge.relationship(node1, type, {scopeText: ..}, {}, node2, {})
apoc_merge_relationship(rs, node1, type, identProps, node2) ==
    rs \cup {[src |-> node1, type |-> type, props |-> identProps, dst |-> node2]}

\* one edgeObject: a row, hence a merge, per pair of matched nodes
MergeEdge(ns, rs, edgeObject, entityId) ==
    rs \cup UNION {
        apoc_merge_relationship({}, node1, edgeObject.type,
                                [scopeText |-> edgeObject.scopeText], node2) :
            <<node1, node2>> \in MatchNODE(ns, edgeObject.sourceId)
                                 \X MatchNODE(ns, edgeObject.targetId)}

RECURSIVE _create_edges_txn(_, _, _, _)
_create_edges_txn(ns, rs, edgesList, entityId) ==
    IF edgesList = <<>> THEN rs
    ELSE _create_edges_txn(ns, MergeEdge(ns, rs, Head(edgesList), entityId),
                           Tail(edgesList), entityId)

create_nodes(m, ns, nodeList) == _create_nodes_txn(ns, nodeList, repo_id(m), entity_id(m))
create_edges(m, ns, rs, edgesList) == _create_edges_txn(ns, rs, edgesList, entity_id(m))

\* MATCH (n {path: $path}) DETACH DELETE n
DeletedNodes(ns, path) == {n \in ns : Get(n.props, "path") = path}
DetachDeleteRels(ns, rs, path) ==
    {r \in rs : r.src \notin DeletedNodes(ns, path) /\ r.dst \notin DeletedNodes(ns, path)}

------------------------------------------------------------------------------
(* Result Mapper and Neighbor Expansion *)

NodeResult(node_id, name, node_path, start_line, end_line, text) ==
    [t |-> "NodeResult", node_id |-> node_id, name |-> name, node_path |-> node_path,
     start_line |-> start_line, end_line |-> end_line, text |-> text]

NeighborResult(node_id, name, node_type, relationship_type) ==
    [t |-> "NeighborResult", node_id |-> node_id, name |-> name,
     node_type |-> node_type, relationship_type |-> relationship_type]

\* the row RETURNed for one matched relationship, mapped to a NeighborResult
NeighborRow(r) ==
    NeighborResult(Get(r.dst.props, "node_id"), Get(r.dst.props, "name"),
                   r.dst.labels, r.type)

\* the pattern with its arrow reversed
IncomingOf(rs, node_id) == {r \in rs : Get(r.dst.props, "node_id") = node_id}

\* MATCH (p {node_id: $node_id})-[r]->(p2): one row per matched relationship
OutgoingOf(rs, node_id) == {r \in rs : Get(r.src.props, "node_id") = node_id}

\* the returned list, as a bag: the store fixes no order of the rows
get_1_hop_neighbors_and_relations(rs, node_id) ==
    LET rows == OutgoingOf(rs, node_id)
    IN List([e \in {NeighborRow(r) : r \in rows} |->
                Cardinality({r \in rows : NeighborRow(r) = e})])

EmptyList == List([e \in {} |-> 0])

------------------------------------------------------------------------------
(* Retriever: getById *)

\* MATCH (n) WHERE n.node_id = $node_id RETURN n
RecordsById(ns, node_id) == {n \in ns : Get(n.props, "node_id") = node_id}

\* every value get_node_by_id may return: records[0] is whichever matching node
\* the store returns first
get_node_by_id(ns, rs, node_id) ==
    IF RecordsById(ns, node_id) = {}
    THEN {Tuple(<<None, EmptyList>>)}
    ELSE {Tuple(<<NodeResult(Get(n.props, "node_id"), Get(n.props, "name"),
                             Get(n.props, "node_path"), Get(n.props, "start_line"),
                             Get(n.props, "end_line"), Get(n.props, "text")),
                  get_1_hop_neighbors_and_relations(rs, node_id)>>) :
            n \in RecordsById(ns, node_id)}

------------------------------------------------------------------------------
(* The full-text index functionNames, FOR (n:CLASS|FUNCTION|FILE)           *)
(* ON EACH [n.name, n.path, n.node_id], and db.index.fulltext.queryNodes:  *)
(* fields are analysed into tokens (maximal runs of letters and digits);   *)
(* in the query a backslash makes the next character literal; a query      *)
(* *text* matches a node with a token containing text; any other query is  *)
(* analysed like a field and matches a node sharing a token with it.       *)

IndexedLabels == {"CLASS", "FUNCTION", "FILE"}
IndexedProps == {"name", "path", "node_id"}

AlnumChars ==
    {"a", "b", "c", "e", "f", "n", "o", "r", "s", "x", "y", "z", "0", "1", "2"}

\* the analyzer, left to right: cur is the token being read
RECURSIVE TokenizeFrom(_, _)
TokenizeFrom(s, cur) ==
    IF s = <<>> THEN (IF cur = <<>> THEN {} ELSE {cur})
    ELSE IF Head(s) \in AlnumChars
         THEN TokenizeFrom(Tail(s), Append(cur, Head(s)))
         ELSE (IF cur = <<>> THEN {} ELSE {cur}) \cup TokenizeFrom(Tail(s), <<>>)

Tokenize(s) == TokenizeFrom(s, <<>>)

NodeTokens(n) ==
    UNION {Tokenize(n.props[k].s) :
            k \in {k \in IndexedProps \cap DOMAIN n.props : n.props[k].t = "str"}}

\* the query's characters, each marked escaped or not
RECURSIVE LuceneChars(_)
LuceneChars(q) ==
    IF q = <<>> THEN <<>>
    ELSE IF q[1] = "\\" /\ Len(q) >= 2
         THEN <<[c |-> q[2], esc |-> TRUE]>> \o LuceneChars(SubSeq(q, 3, Len(q)))
         ELSE <<[c |-> q[1], esc |-> FALSE]>> \o LuceneChars(Tail(q))

IsStar(x) == x.c = "*" /\ ~x.esc

Literal(xs) == [i \in 1..Len(xs) |-> xs[i].c]

Contains(tok, text) ==
    \E i \in 1..(Len(tok) - Len(text) + 1) : SubSeq(tok, i, i + Len(text) - 1) = text

\* does the parsed query xs match node n
LuceneMatches(n, xs) ==
    IF Len(xs) >= 2 /\ IsStar(xs[1]) /\ IsStar(xs[Len(xs)])
    THEN \E tok \in NodeTokens(n) : Contains(tok, Literal(SubSeq(xs, 2, Len(xs) - 1)))
    ELSE Tokenize(Literal(xs)) \cap NodeTokens(n) # {}

\* CALL db.index.fulltext.queryNodes("functionNames", q) WHERE node.repoId = $repoId
queryNodes(ns, q, repoId) ==
    LET xs == LuceneChars(q)
    IN {n \in ns : /\ n.labels \cap IndexedLabels # {}
                   /\ Get(n.props, "repoId") = repoId
                   /\ LuceneMatches(n, xs)}

------------------------------------------------------------------------------
(* Retriever: searchByText *)

Wildcarded(q) == <<"*">> \o q \o <<"*">>

\* the NodeResult and neighbors built from first_result
SearchHit(n, rs) ==
    Tuple(<<NodeResult(Get(n.props, "node_id"), Get(n.props, "name"),
                       Get(n.props, "node_path"), Get(n.props, "start_line"),
                       Get(n.props, "end_line"), Get(n.props, "text")),
            get_1_hop_neighbors_and_relations(rs, Get(n.props, "node_id"))>>)

\* the search without its second attempt
search_wildcard_only(ns, rs, repoId, text) ==
    LET formatted_query == _format_query(text)
        first == queryNodes(ns, Wildcarded(formatted_query), repoId)
    IN IF first # {}
       THEN {[ran |-> <<Wildcarded(formatted_query)>>, ret |-> SearchHit(n, rs)] :
                n \in first}
       ELSE {[ran |-> <<Wildcarded(formatted_query)>>, ret |-> Tuple(<<None, EmptyList>>)]}

\* every (queries run, value returned) of search_nodes_by_text: result.peek() is
\* the best-scored row, whichever node the index ranks first
search_nodes_by_text(ns, rs, repoId, text) ==
    LET formatted_query == _format_query(text)
        first == queryNodes(ns, Wildcarded(formatted_query), repoId)
        second == queryNodes(ns, formatted_query, repoId)
    IN IF first # {}
       THEN {[ran |-> <<Wildcarded(formatted_query)>>, ret |-> SearchHit(n, rs)] :
                n \in first}
       ELSE IF second # {}
            THEN {[ran |-> <<Wildcarded(formatted_query), formatted_query>>,
                   ret |-> SearchHit(n, rs)] : n \in second}
            ELSE {[ran |-> <<Wildcarded(formatted_query), formatted_query>>,
                   ret |-> Tuple(<<None, EmptyList>>)]}

------------------------------------------------------------------------------
(* GraphQueryTool *)

Sentinel == S(<<"No code found for the given query">>)

\* GraphQueryTool.get_node_by_id, given what db_manager.get_node_by_id returned
tool_get_node_by_id(result) ==
    IF ~Truthy(result) THEN Sentinel
    ELSE IF Truthy(result) THEN result ELSE S(<<"No result found">>)

\* GraphQueryTool.search_nodes_by_text, given what the manager returned
tool_search_nodes_by_text(result) ==
    LET code == result.items[1]
        neighbours == result.items[2]
    IN IF ~Truthy(code) THEN Sentinel
       ELSE [t |-> "str", rendered |-> <<"current node code:", code.text,
                                        "current node neighbours:", neighbours>>]

------------------------------------------------------------------------------
(* Connector: Neo4jManager.__init__, create_indexes_and_constraints, close *)

retries == 3

\* a delay that does not grow
backoff_fixed(attempt) == 1

backoff(attempt) == 2 ^ attempt

\* the indexes, in the order create_indexes_and_constraints creates them
IndexNames == <<"functionNames", "node_id_NODE", "entityId_INDEX">>

DriverOutcomes == {"ok", "ServiceUnavailable", "other"}

NewConn == [pc |-> "new", attempt |-> 0, log |-> <<>>, slept |-> <<>>, created |-> 0,
            error |-> "none"]
ReadyConn == [pc |-> "ready", attempt |-> 0, log |-> <<"ok">>, slept |-> <<>>,
              created |-> Len(IndexNames), error |-> "none"]

\* Neo4jManager(...) is called
Construct(m) ==
    /\ conn[m].pc = "new"
    /\ conn' = [conn EXCEPT ![m].pc = "connecting"]
    /\ UNCHANGED <<nodes, rels, indexes, last, query, formatted>>

\* one iteration of the retry loop: GraphDatabase.driver(...) returns or raises
DriverAttempt(m, outcome) ==
    /\ conn[m].pc = "connecting"
    /\ conn[m].attempt < retries
    /\ conn' = [conn EXCEPT
            ![m].log = Append(@, outcome),
            ![m].pc = IF outcome = "ok" THEN "provisioning"
                      ELSE IF outcome = "ServiceUnavailable" /\ conn[m].attempt < retries - 1
                           THEN "sleeping"
                           ELSE "failed",
            ![m].error = IF outcome = "ok" \/ (outcome = "ServiceUnavailable"
                                               /\ conn[m].attempt < retries - 1)
                         THEN "none" ELSE outcome]
    /\ UNCHANGED <<nodes, rels, indexes, last, query, formatted>>

\* time.sleep(2**attempt), then the next iteration
Sleep(m) ==
    /\ conn[m].pc = "sleeping"
    /\ conn' = [conn EXCEPT ![m].slept = Append(@, backoff(conn[m].attempt)),
                            ![m].attempt = @ + 1,
                            ![m].pc = "connecting"]
    /\ UNCHANGED <<nodes, rels, indexes, last, query, formatted>>

\* the next CREATE ... INDEX ... IF NOT EXISTS of create_indexes_and_constraints;
\* after the last one repo_id and entity_id are set and __init__ returns
CreateIndex(m, ok) ==
    /\ conn[m].pc = "provisioning"
    /\ IF ok
       THEN /\ indexes' = indexes \cup {IndexNames[conn[m].created + 1]}
            /\ conn' = [conn EXCEPT
                    ![m].created = @ + 1,
                    ![m].pc = IF conn[m].created + 1 = Len(IndexNames)
                              THEN "ready" ELSE "provisioning"]
       ELSE /\ indexes' = indexes
            /\ conn' = [conn EXCEPT ![m].pc = "failed", ![m].error = "other"]
    /\ UNCHANGED <<nodes, rels, last, query, formatted>>

\* close(): self.driver.close()
Close(m) ==
    /\ conn[m].pc = "ready"
    /\ conn' = [conn EXCEPT ![m].pc = "closed"]
    /\ UNCHANGED <<nodes, rels, indexes, last, query, formatted>>

------------------------------------------------------------------------------
(* Calls on a ready manager, and on the tool built on it *)

NoCall == [op |-> "none"]

\* save_graph(nodes, edges): create_nodes, then create_edges
SaveGraph(m, nodeList, edgesList) ==
    /\ conn[m].pc = "ready"
    /\ LET ns == create_nodes(m, nodes, nodeList)
           rs == create_edges(m, ns, rels, edgesList)
       IN /\ Cardinality(ns) <= MaxNodes
          /\ Cardinality(rs) <= MaxRels
          /\ nodes' = ns
          /\ rels' = rs
    /\ last' = [op |-> "save_graph", mgr |-> m, nodeList |-> nodeList,
                edgesList |-> edgesList]
    /\ UNCHANGED <<indexes, conn, query, formatted>>

DeleteByPath(m, path) ==
    /\ conn[m].pc = "ready"
    /\ nodes' = nodes \ DeletedNodes(nodes, path)
    /\ rels' = DetachDeleteRels(nodes, rels, path)
    /\ last' = [op |-> "detatch_delete_nodes_with_path", mgr |-> m, path |-> path]
    /\ UNCHANGED <<indexes, conn, query, formatted>>

GetNodeById(m, node_id) ==
    /\ conn[m].pc = "ready"
    /\ \E ret \in get_node_by_id(nodes, rels, node_id) :
          last' = [op |-> "get_node_by_id", mgr |-> m, node_id |-> node_id, ret |-> ret]
    /\ UNCHANGED <<nodes, rels, indexes, conn, query, formatted>>

Neighbors(m, node_id) ==
    /\ conn[m].pc = "ready"
    /\ last' = [op |-> "get_1_hop_neighbors_and_relations", mgr |-> m,
                node_id |-> node_id,
                ret |-> get_1_hop_neighbors_and_relations(rels, node_id)]
    /\ UNCHANGED <<nodes, rels, indexes, conn, query, formatted>>

SearchNodesByText(m, text) ==
    /\ conn[m].pc = "ready"
    /\ \E out \in search_nodes_by_text(nodes, rels, repo_id(m), text.s) :
          last' = [op |-> "search_nodes_by_text", mgr |-> m, text |-> text,
                   ran |-> out.ran, ret |-> out.ret]
    /\ UNCHANGED <<nodes, rels, indexes, conn, query, formatted>>

ToolGetNodeById(m, node_id) ==
    /\ conn[m].pc = "ready"
    /\ \E result \in get_node_by_id(nodes, rels, node_id) :
          last' = [op |-> "GraphQueryTool.get_node_by_id", mgr |-> m,
                   node_id |-> node_id, result |-> result,
                   ret |-> tool_get_node_by_id(result)]
    /\ UNCHANGED <<nodes, rels, indexes, conn, query, formatted>>

ToolSearchNodesByText(m, text) ==
    /\ conn[m].pc = "ready"
    /\ \E out \in search_nodes_by_text(nodes, rels, repo_id(m), text.s) :
          last' = [op |-> "GraphQueryTool.search_nodes_by_text", mgr |-> m,
                   text |-> text, result |-> out.ret,
                   ret |-> tool_search_nodes_by_text(out.ret)]
    /\ UNCHANGED <<nodes, rels, indexes, conn, query, formatted>>

\* _format_query(query) is called and returns
FormatQuery ==
    /\ formatted = None
    /\ formatted' = S(_format_query(query.s))
    /\ UNCHANGED <<nodes, rels, indexes, conn, last, query>>

------------------------------------------------------------------------------
(* Specifications *)

\* the store and two ready managers, one per partition, read by node_id
Init ==
    /\ nodes = {}
    /\ rels = {}
    /\ indexes = {IndexNames[i] : i \in 1..Len(IndexNames)}
    /\ conn = [m \in Managers |-> ReadyConn]
    /\ last = NoCall
    /\ query = S(<<>>)
    /\ formatted = None

Next ==
    \E m \in Managers :
        \/ \E arg \in SaveInputs : SaveGraph(m, arg[1], arg[2])
        \/ \E path \in PathInputs : DeleteByPath(m, path)
        \/ \E node_id \in IdInputs : GetNodeById(m, node_id)
        \/ \E node_id \in IdInputs : Neighbors(m, node_id)
        \/ \E node_id \in IdInputs : ToolGetNodeById(m, node_id)

Spec == Init /\ [][Next]_vars

\* the same store and managers, read by text search
NextSearch ==
    \E m \in Managers :
        \/ \E arg \in SaveInputs : SaveGraph(m, arg[1], arg[2])
        \/ \E path \in PathInputs : DeleteByPath(m, path)
        \/ \E text \in TextInputs : SearchNodesByText(m, text)
        \/ \E text \in TextInputs : ToolSearchNodesByText(m, text)

SpecSearch == Init /\ [][NextSearch]_vars

\* opening (and closing) the managers against an empty store
InitOpen ==
    /\ nodes = {}
    /\ rels = {}
    /\ indexes = {}
    /\ conn = [m \in Managers |-> NewConn]
    /\ last = NoCall
    /\ query = S(<<>>)
    /\ formatted = None

NextOpen ==
    \E m \in Managers :
        \/ Construct(m)
        \/ \E outcome \in DriverOutcomes : DriverAttempt(m, outcome)
        \/ Sleep(m)
        \/ \E ok \in BOOLEAN : CreateIndex(m, ok)
        \/ Close(m)

SpecOpen == InitOpen /\ [][NextOpen]_vars

\* the escaper alone, on every text of at most MaxLen characters and on a+b*c
EscapeAlphabet == {"a", "+", "*", "&", "\\", "/"}

EscapeInputs ==
    UNION {[1..k -> EscapeAlphabet] : k \in 0..MaxLen} \cup {<<"a", "+", "b", "*", "c">>}

InitEscape ==
    /\ nodes = {}
    /\ rels = {}
    /\ indexes = {}
    /\ conn = [m \in Managers |-> NewConn]
    /\ last = NoCall
    /\ query \in {S(q) : q \in EscapeInputs}
    /\ formatted = None

NextEscape == FormatQuery

SpecEscape == InitEscape /\ [][NextEscape]_vars

------------------------------------------------------------------------------
(* Properties *)

EmptyPair == Tuple(<<None, EmptyList>>)

NodeId(n) == Get(n.props, "node_id")

InPartition(n, m) ==
    Get(n.props, "repoId") = repo_id(m) /\ Get(n.props, "entityId") = entity_id(m)

\* C1: the store holds at most one node per node_id in a (repoId, entityId)
\* partition, whatever save_graph calls were made: a node re-ingested with a
\* changed attribute map overwrites the node it had, it adds no second one.
C1_OneNodePerIdInPartition ==
    \A n1 \in nodes, n2 \in nodes :
        ( /\ NodeId(n1) = NodeId(n2)
          /\ Get(n1.props, "repoId") = Get(n2.props, "repoId")
          /\ Get(n1.props, "entityId") = Get(n2.props, "entityId") ) => n1 = n2

RelsOfEdge(rs, e) ==
    {r \in rs : /\ NodeId(r.src) = e.sourceId
                /\ NodeId(r.dst) = e.targetId
                /\ r.type = e.type
                /\ r.props.scopeText = e.scopeText}

Present(ns, id) == \E n \in ns : NodeId(n) = id

\* C2: save_graph([], [E]) leaves exactly one relationship of E's type and
\* scopeText from E's source to E's target when both endpoints are present, and
\* changes neither the relationships nor the nodes when an endpoint is absent.
C2_EdgeUpsertOnce ==
    [][ ( /\ last'.op = "save_graph"
          /\ last'.nodeList = <<>>
          /\ Len(last'.edgesList) = 1 ) =>
        LET e == last'.edgesList[1]
        IN IF Present(nodes, e.sourceId) /\ Present(nodes, e.targetId)
           THEN Cardinality(RelsOfEdge(rels', e)) = 1
           ELSE rels' = rels /\ nodes' = nodes ]_vars

\* C3: every node and every relationship a save_graph call creates lies in
\* the caller's partition: the node carries the caller's repoId and entityId,
\* and both ends of the relationship are nodes of the caller's partition.
C3_WritesStayInPartition ==
    [][ last'.op = "save_graph" =>
        /\ \A n \in nodes' \ nodes : InPartition(n, last'.mgr)
        /\ \A r \in rels' \ rels :
              InPartition(r.src, last'.mgr) /\ InPartition(r.dst, last'.mgr) ]_vars

SingleTokens == {special_characters[i][1] :
                    i \in {i \in 1..Len(special_characters) : Len(special_characters[i]) = 1}}
DoubleTokens == {special_characters[i] :
                    i \in {i \in 1..Len(special_characters) : Len(special_characters[i]) = 2}}

\* one left-to-right scan: a marker before each special token, the rest copied
RECURSIVE ScanEscape(_)
ScanEscape(q) ==
    IF q = <<>> THEN <<>>
    ELSE IF Len(q) >= 2 /\ SubSeq(q, 1, 2) \in DoubleTokens
         THEN <<"\\", q[1], q[2]>> \o ScanEscape(SubSeq(q, 3, Len(q)))
         ELSE IF q[1] \in SingleTokens
              THEN <<"\\", q[1]>> \o ScanEscape(Tail(q))
              ELSE <<q[1]>> \o ScanEscape(Tail(q))

\* C4: _format_query returns what a single left-to-right scan returns: one
\* marker before each special token of the input, every other character
\* copied, no inserted marker escaped again; a+b*c becomes a\+b\*c.
C4_EscapeIsSingleScan ==
    formatted # None =>
        /\ formatted.s = ScanEscape(query.s)
        /\ query.s = <<"a", "+", "b", "*", "c">> =>
               formatted.s = <<"a", "\\", "+", "b", "\\", "*", "c">>

AllUnavailable(log) == \A i \in 1..Len(log) : log[i] = "ServiceUnavailable"

\* C5: opening makes at most 3 connection attempts and stops at the first
\* success; before each further attempt it waits 2^attempt seconds, a delay
\* that doubles; when all 3 attempts fail with ServiceUnavailable the error
\* is raised, the manager provisions no index and is not ready.
C5_BoundedRetryWithBackoff ==
    \A m \in Managers :
        LET c == conn[m]
        IN /\ Len(c.log) <= 3
           /\ \A i \in 1..(Len(c.log) - 1) : c.log[i] = "ServiceUnavailable"
           /\ \A i \in 1..Len(c.slept) : c.slept[i] = 2 ^ (i - 1)
           /\ \A i \in 2..Len(c.slept) : c.slept[i] = 2 * c.slept[i - 1]
           /\ c.pc = "connecting" => Len(c.slept) = Len(c.log)
           /\ c.pc \in {"provisioning", "ready", "closed"} =>
                  c.log[Len(c.log)] = "ok" /\ Len(c.slept) = Len(c.log) - 1
           /\ (Len(c.log) = 3 /\ AllUnavailable(c.log)) =>
                  /\ c.pc = "failed"
                  /\ c.error = "ServiceUnavailable"
                  /\ c.slept = <<1, 2>>
                  /\ c.created = 0

C5_AllAttemptsFailed ==
    \E m \in Managers :
        /\ conn[m].pc = "failed"
        /\ conn[m].log = <<"ServiceUnavailable", "ServiceUnavailable", "ServiceUnavailable">>
        /\ conn[m].slept = <<1, 2>>

HitOf(n, rs) ==
    Tuple(<<NodeResult(NodeId(n), Get(n.props, "name"), Get(n.props, "node_path"),
                       Get(n.props, "start_line"), Get(n.props, "end_line"),
                       Get(n.props, "text")),
            get_1_hop_neighbors_and_relations(rs, NodeId(n))>>)

\* C6: search_nodes_by_text first runs the escaped query wrapped in wildcards,
\* and runs the escaped query unwrapped only if that yields nothing; it returns
\* (None, []) exactly when both yield nothing, and otherwise a hit of the
\* first non-empty attempt, a node of the caller's repoId, with the one-hop
\* neighbors of the hit's node_id.
C6_WildcardThenExact ==
    last.op = "search_nodes_by_text" =>
        LET escaped == _format_query(last.text.s)
            wildHits == queryNodes(nodes, Wildcarded(escaped), repo_id(last.mgr))
            exactHits == queryNodes(nodes, escaped, repo_id(last.mgr))
            firstNonEmpty == IF wildHits # {} THEN wildHits ELSE exactHits
        IN /\ last.ran[1] = Wildcarded(escaped)
           /\ Len(last.ran) = (IF wildHits = {} THEN 2 ELSE 1)
           /\ Len(last.ran) = 2 => last.ran[2] = escaped
           /\ last.ret = EmptyPair <=> (wildHits = {} /\ exactHits = {})
           /\ last.ret # EmptyPair =>
                  \E n \in firstNonEmpty :
                      /\ Get(n.props, "repoId") = repo_id(last.mgr)
                      /\ last.ret = HitOf(n, rels)

C6_FallbackHit ==
    /\ last.op = "search_nodes_by_text"
    /\ Len(last.ran) = 2
    /\ last.ret # EmptyPair
    /\ \E n \in nodes : Get(n.props, "repoId") # repo_id(last.mgr)

\* C7: after detatch_delete_nodes_with_path(p) no node with path p and no
\* relationship incident to one remains, and get_node_by_id on the node_id of
\* any removed node returns (None, []).
C7_DeletedIdsAreGone ==
    [][ last'.op = "detatch_delete_nodes_with_path" =>
        /\ \A n \in nodes' : Get(n.props, "path") # last'.path
        /\ \A r \in rels' : r.src \in nodes' /\ r.dst \in nodes'
        /\ \A n \in nodes \ nodes' :
              get_node_by_id(nodes', rels', NodeId(n)) = {EmptyPair} ]_vars

\* C8: save_graph([N], []) followed by get_node_by_id(N.node_id) on the same
\* manager returns a NodeResult whose node_id, name, node_path, start_line,
\* end_line and text are the attributes persisted for N.
C8_WriteThenReadRoundTrip ==
    [][ ( /\ last.op = "save_graph"
          /\ Len(last.nodeList) = 1
          /\ last.edgesList = <<>>
          /\ last'.op = "get_node_by_id"
          /\ last'.mgr = last.mgr
          /\ last'.node_id = Get(last.nodeList[1].attributes, "node_id") ) =>
        LET a == last.nodeList[1].attributes
            got == last'.ret.items[1]
        IN /\ got # None
           /\ got.node_id = Get(a, "node_id")
           /\ got.name = Get(a, "name")
           /\ got.node_path = Get(a, "node_path")
           /\ got.start_line = Get(a, "start_line")
           /\ got.end_line = Get(a, "end_line")
           /\ got.text = Get(a, "text") ]_vars

\* C9: get_1_hop_neighbors_and_relations(node_id) returns one NeighborResult
\* per outgoing relationship of the nodes with that node_id and nothing else,
\* each with the target's node_id, name and labels and the relationship's type.
C9_OneEntryPerOutgoingRel ==
    last.op = "get_1_hop_neighbors_and_relations" =>
        LET bag == last.ret.bag
            out == {r \in rels : Get(r.src.props, "node_id") = last.node_id}
        IN /\ BagCardinality(bag) = Cardinality(out)
           /\ \A e \in DOMAIN bag :
                 bag[e] = Cardinality({r \in out :
                                 /\ r.type = e.relationship_type
                                 /\ Get(r.dst.props, "node_id") = e.node_id
                                 /\ Get(r.dst.props, "name") = e.name
                                 /\ r.dst.labels = e.node_type})

C9_TwoTypesTwoTargets ==
    /\ last.op = "get_1_hop_neighbors_and_relations"
    /\ BagCardinality(last.ret.bag) = 2
    /\ \E e1 \in DOMAIN last.ret.bag, e2 \in DOMAIN last.ret.bag :
          e1.relationship_type # e2.relationship_type /\ e1.node_id # e2.node_id
    /\ \E r \in rels : /\ Get(r.dst.props, "node_id") = last.node_id
                       /\ Get(r.src.props, "node_id") # last.node_id

\* C10: a miss is no exception: get_node_by_id and search_nodes_by_text
\* return (None, []) when no node matches, and both GraphQueryTool operations
\* return the sentinel string whenever the manager returned (None, []).
C10_MissRendersSentinel ==
    /\ (last.op = "get_node_by_id" /\ ~Present(nodes, last.node_id)) =>
           last.ret = EmptyPair
    /\ ( /\ last.op \in {"GraphQueryTool.get_node_by_id",
                         "GraphQueryTool.search_nodes_by_text"}
         /\ last.result = EmptyPair ) => last.ret = Sentinel

====
